---- MODULE Spec2Model ----
(***************************************************************************)
(* FindMyCat client (src/FindMyCatClient/findmycat_client.py): the pairing *)
(* flow of main(), the health check and the poll loop of run_continuous,   *)
(* one cycle of run_once (marker check, fetch_locations, process_locations *)
(* and the single / batch delivery request).                               *)
(*                                                                         *)
(* The cache file, the server and the user's Ctrl-C are the environment:   *)
(* what a read of the file or a reply of the server yields is chosen with  *)
(* \E at the step that reads it.  fetch_locations fixes how many rows the  *)
(* list has; what a row holds is drawn when the for loop of                *)
(* process_locations visits it, which yields the same runs as drawing the  *)
(* whole list at the read, since nothing looks at a row before its visit.  *)
(* Latitude and longitude are carried through unchanged by the code and    *)
(* are left out of the records.                                            *)
(***************************************************************************)
EXTENDS Integers, Sequences, FiniteSets, TLC

(* ------------------------------ bounds -------------------------------- *)
NumDevices == 2     \* device ids 1..NumDevices
MaxTs      == 2     \* location timestamps 0..MaxTs
MaxMtime   == 2     \* modification times of the cache file 1..MaxMtime
MaxRows    == 2     \* rows fetch_locations returns from one read

(* ------------------------- program constants -------------------------- *)
POLL_INTERVAL          == 10
max_consecutive_errors == 5
PAIRING_TIMEOUT        == 30
BATCH_SIZE             == 10

None       == -1    \* Python None, for last_mtime / token / timeout
NewToken   == 2     \* the token a successful pairing reply carries
SavedToken == 1     \* a token found in ~/.findmycat/config.json at startup

Devices    == 1..NumDevices
Timestamps == 0..MaxTs
Mtimes     == 1..MaxMtime

VARIABLES
    pc,                 \* position of the single thread of control
    pair_code,          \* args.pair_code given
    poll_interval,      \* args.interval
    token,              \* client.token
    auth_header,        \* client.session.headers["Authorization"] (token or None)
    config_token,       \* token in the persisted config file
    request,            \* the HTTP request in flight (NoRequest when none)
    last_mtime,         \* self.last_mtime
    current_mtime,      \* current_mtime of run_once (None outside the cycle that read it)
    last_seen,          \* self.last_seen, .get(d, 0) folded in
    rows_left,          \* rows of locations the for loop has still to visit
    row,                \* device_id, timestamp, iso_time of the row visited last
    new_updates,        \* new_updates of process_locations
    consecutive_errors, \* consecutive_errors of run_continuous
    cycle_error,        \* history: the exception kind raised, and handled, so far in this cycle
    last_cycle,         \* history: how the cycle before this sleep ended
    track_streak,       \* history: whether fail_streak is kept in this run
    fail_streak,        \* history: consecutive cycles that hit an exception
    start_errors,       \* history: consecutive_errors when the cycle began
    interrupted,        \* history: a KeyboardInterrupt has been delivered
    abandoned,          \* history: the interrupt left new updates unsent or aborted their request
    long_cache,         \* environment: the cache file holds a history of BATCH_SIZE + 1 rows
    pairing,            \* history: what the pairing request came to
    health,             \* history: what the health request came to
    delivery,           \* history: endpoint, reply, logged outcome and exception of this cycle's request
    cycle_requests,     \* history: delivery requests posted in this cycle
    last_sent,          \* history: per device, the highest timestamp put in a delivery request
    start_seen,         \* history: last_seen when this cycle began
    input_max           \* history: per device, the highest timestamp visited by this for loop

vars == <<pc, pair_code, poll_interval, token, auth_header, config_token, request,
          last_mtime, current_mtime, last_seen, rows_left, row, new_updates,
          consecutive_errors, cycle_error, last_cycle, track_streak, fail_streak,
          start_errors, interrupted, abandoned, long_cache, pairing, health,
          delivery, cycle_requests, last_sent, start_seen, input_max>>

client_vars   == <<pair_code, poll_interval, token, auth_header, config_token>>
cursor_vars   == <<last_mtime, last_seen>>
cycle_history == <<cycle_error, last_cycle, fail_streak>>
startup_history  == <<pairing, health>>
delivery_history == <<delivery, cycle_requests, last_sent>>
input_history    == <<start_seen, input_max>>
history_vars  == <<cycle_history, track_streak, long_cache, start_errors, interrupted,
                   abandoned>>

(* ------------------------------ helpers ------------------------------- *)
Min(a, b) == IF a < b THEN a ELSE b
Max(a, b) == IF a > b THEN a ELSE b
SetMax(S) == CHOOSE x \in S : \A y \in S : y <= x

NoRequest == [endpoint |-> "none", body |-> <<>>, timeout |-> None, auth |-> None]

\* HttpRequest without the headers of the session.
HttpRequestNoAuth(endpoint, body, timeout) ==
    [endpoint |-> endpoint, body |-> body, timeout |-> timeout, auth |-> None]

\* session.post / session.get as called by the client: the timeout is the
\* keyword argument of the call (requests never reads Session.timeout).
HttpRequest(endpoint, body, timeout) ==
    [endpoint |-> endpoint, body |-> body, timeout |-> timeout, auth |-> auth_header]

\* datetime.fromtimestamp(timestamp/1000).isoformat()
IsoTime(timestamp) == [iso |-> timestamp]

\* The payloads process_locations can build (lines 178-183).
AllUpdates == [deviceId : Devices, timestamp : {IsoTime(t) : t \in Timestamps}]

\* issubclass(exc, Exception): KeyboardInterrupt derives from BaseException only.
IsException(exc) == exc # "KeyboardInterrupt"

\* RunOnceCatches with a slip: a bare except, and the first clause alone.
RunOnceCatchesAll(exc) == TRUE
RunOnceCatchesFileNotFoundOnly(exc) == exc = "FileNotFoundError"

\* run_once: except FileNotFoundError / except Exception.
RunOnceCatches(exc) == exc = "FileNotFoundError" \/ IsException(exc)

\* run_continuous, inner try: except Exception.
MonitorCatches(exc) == IsException(exc)

(* --------------------------- initial state ---------------------------- *)
NoRow == [deviceId |-> 0, timestamp |-> 0, iso_time |-> IsoTime(0)]

\* No delivery request has been answered in this cycle.
NoDelivery == [endpoint |-> "none", reply |-> "none", outcome |-> "none", raised |-> "none"]

\* The for loop of process_locations has visited no row.
NoInput == [d \in Devices |-> None]

\* main(): the saved token is read from the config file (lines 327-339) and
\* handed to __init__ (lines 37-46), which sets the header only for a token.
Start ==
    /\ pc = "main"
    /\ pair_code \in BOOLEAN
    /\ poll_interval \in {-1, POLL_INTERVAL}
    /\ config_token \in {None, SavedToken}
    /\ token = config_token
    /\ auth_header = config_token
    /\ request = NoRequest
    /\ last_mtime = None
    /\ current_mtime = None
    /\ last_seen = [d \in Devices |-> 0]
    /\ rows_left = 0
    /\ row = NoRow
    /\ new_updates = <<>>
    /\ consecutive_errors = 0
    /\ cycle_error = "none"
    /\ last_cycle = "none"
    /\ fail_streak = 0
    /\ start_errors = 0
    /\ interrupted = FALSE
    /\ abandoned = FALSE
    /\ pairing = "none"
    /\ health = "none"
    /\ delivery = NoDelivery
    /\ cycle_requests = 0
    /\ last_sent = [d \in Devices |-> 0]
    /\ start_seen = [d \in Devices |-> 0]
    /\ input_max = NoInput

Init == Start /\ track_streak = FALSE /\ long_cache = FALSE

\* The same program, with the streak of failing cycles recorded.
StreakInit == Start /\ track_streak = TRUE /\ long_cache = FALSE

\* The same program, reading a cache file that lists BATCH_SIZE + 1
\* positions of one device, oldest first.
LongCacheInit == Start /\ track_streak = FALSE /\ long_cache = TRUE

(* ----------------------- how a cycle comes to end --------------------- *)
ErrorKinds == {"source_error", "shape_error", "deliver_error"}

\* History of the cycle that ends now with `kind`.
EndCycle(kind) ==
    LET k == IF cycle_error # "none" THEN cycle_error ELSE kind IN
    /\ last_cycle' = k
    /\ fail_streak' = IF ~track_streak THEN 0
                       ELSE IF k \in ErrorKinds
                       THEN Min(fail_streak + 1, max_consecutive_errors)
                       ELSE IF k = "interrupted" THEN fail_streak ELSE 0
    /\ cycle_error' = "none"

\* run_continuous lines 260-264: success = self.run_once(); if success: reset.
ReturnFromRunOnce(success, kind) ==
    /\ consecutive_errors' = IF success THEN 0 ELSE consecutive_errors
    /\ pc' = "sleep"
    /\ EndCycle(kind)

\* An exception reaching the try of the while loop (lines 259-282): the inner
\* except Exception counts it and breaks at the threshold, else it sleeps on
\* line 275; anything else leaves the loop through the outer clauses.
RaiseInLoop(exc) ==
    IF MonitorCatches(exc)
    THEN /\ consecutive_errors' = consecutive_errors + 1
         /\ pc' = IF consecutive_errors + 1 >= max_consecutive_errors
                     THEN "aborted" ELSE "retry_wait"
    ELSE /\ consecutive_errors' = consecutive_errors
         /\ pc' = "stopped"

\* An exception raised inside the try of run_once (lines 218-240).
RaiseInRunOnce(exc, kind) ==
    IF RunOnceCatches(exc)
    THEN ReturnFromRunOnce(FALSE, kind)
    ELSE RaiseInLoop(exc) /\ EndCycle(kind)

(* ------------------------- main() and pairing ------------------------- *)
loop_vars == <<last_mtime, current_mtime, last_seen, rows_left, row, new_updates,
               consecutive_errors>>

\* main lines 345-357 and 392-393: with --pair-code the claim request is
\* posted with timeout=30, else run_continuous is entered.
Main ==
    /\ pc = "main"
    /\ IF pair_code
       THEN /\ request' = HttpRequest("pairing/claim", <<>>, PAIRING_TIMEOUT)
            /\ pc' = "pairing"
       ELSE /\ request' = request
            /\ pc' = "run"
    /\ UNCHANGED <<client_vars, loop_vars, history_vars, startup_history,
                   delivery_history, input_history>>

PairingReplies == {"token", "no_token", "not_200", "unparsable", "network_error"}

\* PairingSucceeded with the test of line 369 lost.
PairingSucceededUnchecked(reply) == reply \in {"token", "no_token"}

\* main lines 358-371: status 200, a body that parses, and a token in it.
PairingSucceeded(reply) == reply = "token"

\* main line 368: data.get("token").
TokenOf(reply) == IF reply = "token" THEN NewToken ELSE None

\* main lines 358-382: only a 200 reply carrying a token writes the config
\* and sets client.token and the session header; every other reply returns.
PairingReply ==
    /\ pc = "pairing"
    /\ \E reply \in PairingReplies :
          /\ pairing' = reply
          /\ IF PairingSucceeded(reply)
             THEN /\ config_token' = TokenOf(reply)
                  /\ token' = TokenOf(reply)
                  /\ auth_header' = TokenOf(reply)
                  /\ pc' = "run"
             ELSE /\ UNCHANGED <<config_token, token, auth_header>>
                  /\ pc' = "exit"
    /\ request' = NoRequest
    /\ UNCHANGED <<pair_code, poll_interval, loop_vars, history_vars, health,
                   delivery_history, input_history>>

\* run_continuous lines 249-250 with test_connection line 51: the health
\* request is sent with session.get and no timeout argument.
RunContinuous ==
    /\ pc = "run"
    /\ request' = HttpRequest("health", <<>>, None)
    /\ pc' = "health"
    /\ UNCHANGED <<client_vars, loop_vars, history_vars, startup_history,
                   delivery_history, input_history>>

\* What the server, or the network, answers to the health request; a 200
\* reply whose body is no JSON makes response.json() (line 53) raise, a
\* ValueError or a requests.RequestException according to the requests version.
HealthReplies == {"ok", "not_200", "json_ValueError", "json_RequestException",
                  "network_error"}

\* TestConnection with the status test of line 52 lost.
TestConnectionAlwaysTrue(reply) == TRUE

\* test_connection lines 50-61: True for a 200 reply with a JSON body only.
TestConnection(reply) == reply = "ok"

\* test_connection lines 52-61 and run_continuous lines 250-255: the call of
\* line 250 is outside every try, so the ValueError ends the process.
HealthReply ==
    /\ pc = "health"
    /\ \E reply \in HealthReplies :
          /\ health' = reply
          /\ pc' = IF reply = "json_ValueError" THEN "crashed"
                    ELSE IF TestConnection(reply) THEN "poll" ELSE "exit"
    /\ request' = NoRequest
    /\ consecutive_errors' = 0
    /\ UNCHANGED <<client_vars, cursor_vars, current_mtime, rows_left, row,
                   new_updates, history_vars, pairing, delivery_history, input_history>>

(* ------------------------------ run_once ------------------------------ *)
\* os.path.getmtime(DB_PATH): a modification time, or the file is not there
\* or not readable.
GetmtimeResults ==
    [exc : {"none"}, mtime : Mtimes]
        \cup [exc : {"FileNotFoundError", "PermissionError"}, mtime : {None}]

\* MarkerChanged with a slip in the comparison of line 222.
MarkerChangedOrEqual(mtime, recorded) == recorded = None \/ mtime >= recorded
MarkerDiffers(mtime, recorded) == recorded = None \/ mtime # recorded

\* run_once line 222.
MarkerChanged(mtime, recorded) == recorded = None \/ mtime > recorded

\* run_once lines 218-224 and 230-240: read the marker, compare, record it.
Poll ==
    /\ pc = "poll"
    /\ \E res \in GetmtimeResults :
          /\ current_mtime' = res.mtime
          /\ IF res.exc # "none"
             THEN /\ RaiseInRunOnce(res.exc, "source_error")
                  /\ last_mtime' = last_mtime
             ELSE IF MarkerChanged(res.mtime, last_mtime)
             THEN /\ last_mtime' = res.mtime
                  /\ pc' = "fetch"
                  /\ UNCHANGED <<consecutive_errors, cycle_history>>
             ELSE /\ ReturnFromRunOnce(FALSE, "noop")
                  /\ last_mtime' = last_mtime
    /\ UNCHANGED <<client_vars, request, last_seen, rows_left, row, new_updates,
                   track_streak, long_cache, start_errors, interrupted, abandoned,
                   startup_history, delivery_history, input_history>>

(* --------------------------- fetch_locations -------------------------- *)
\* Rows of the long cache file.
LongRows == BATCH_SIZE + 1

\* Exceptions of open() / json.load(), raised inside the try of lines 65-81.
ReadErrors == {"FileNotFoundError", "PermissionError", "JSONDecodeError"}

\* What reading the file yields: the number of rows that pass lines 86-105,
\* an error of the read, or JSON that is neither a list nor a dict of items
\* (AttributeError on line 83 / 87).
ReadResults ==
    [exc : {"none"}, rows : IF long_cache THEN {0, LongRows} ELSE 0..MaxRows]
        \cup [exc : ReadErrors \cup {"AttributeError"}, rows : {0}]

\* run_once line 227 with fetch_locations: an error of the read is caught in
\* fetch_locations and gives [], an error of lines 83-105 is raised to run_once.
Fetch ==
    /\ pc = "fetch"
    /\ \E res \in ReadResults :
          /\ rows_left' = res.rows
          /\ IF res.exc = "none"
             THEN /\ pc' = "detect"
                  /\ UNCHANGED <<consecutive_errors, cycle_history>>
             ELSE IF res.exc \in ReadErrors
             THEN /\ pc' = "detect"
                  /\ cycle_error' = "source_error"
                  /\ UNCHANGED <<consecutive_errors, last_cycle, fail_streak>>
             ELSE RaiseInRunOnce(res.exc, "shape_error")
    /\ UNCHANGED <<client_vars, request, cursor_vars, current_mtime, row, new_updates,
                   track_streak, long_cache, start_errors, interrupted, abandoned,
                   startup_history, delivery_history, input_history>>

(* -------------------------- process_locations ------------------------- *)
\* fetch_locations line 105: a row of the list.
Rows ==
    {[deviceId |-> d, timestamp |-> t, iso_time |-> IsoTime(t)] :
        d \in Devices, t \in Timestamps}

\* The i-th row of the long cache file: device 1 at time i.
HistoryRow(i) == [deviceId |-> 1, timestamp |-> i, iso_time |-> IsoTime(i)]

\* The rows the for loop may meet when `left` rows are still to visit.
CacheRows(left) ==
    IF long_cache THEN {HistoryRow(LongRows - left + 1)} ELSE Rows

\* IsNew with a slip in the comparison of line 176.
IsNewDifferent(timestamp, previous_timestamp) == timestamp # previous_timestamp
IsNewOrEqual(timestamp, previous_timestamp) == timestamp >= previous_timestamp

\* process_locations line 176.
IsNew(timestamp, previous_timestamp) == timestamp > previous_timestamp

\* process_locations lines 178-183.
Update(r) == [deviceId |-> r.deviceId, timestamp |-> r.iso_time]

\* process_locations lines 173-188: one pass of the for loop.
ProcessOne ==
    /\ pc = "detect"
    /\ rows_left > 0
    /\ \E r \in CacheRows(rows_left) :
          /\ row' = r
          /\ IF IsNew(r.timestamp, last_seen[r.deviceId])
             THEN /\ new_updates' = Append(new_updates, Update(r))
                  /\ last_seen' = [last_seen EXCEPT ![r.deviceId] = r.timestamp]
             ELSE UNCHANGED <<new_updates, last_seen>>
          /\ input_max' = [input_max EXCEPT ![r.deviceId] = Max(@, r.timestamp)]
    /\ rows_left' = rows_left - 1
    /\ UNCHANGED <<pc, client_vars, request, last_mtime, current_mtime,
                   consecutive_errors, history_vars, startup_history,
                   delivery_history, start_seen>>

\* DeliveryRequest with the test of line 191 lost.
DeliveryRequestAlwaysBatch(updates) == HttpRequest("batch-update", updates, None)

\* process_locations lines 191-199 and 206-208 with the session.post calls
\* of lines 124-128 and 149-153, which pass no timeout.
DeliveryRequest(updates) ==
    IF Len(updates) = 1
    THEN HttpRequest("update", <<updates[1]>>, None)
    ELSE HttpRequest("batch-update", updates, None)

\* History: the highest timestamp sent so far for each device, once the
\* request with `body` is posted (timestamps travel as iso_time).
LastSentAfter(body) ==
    [d \in Devices |->
        SetMax({last_sent[d]} \cup {body[i].timestamp.iso :
                                      i \in {j \in 1..Len(body) : body[j].deviceId = d}})]

\* process_locations lines 167-169 and 190-214, after the for loop: nothing
\* new ends the cycle (run_once returns True), else one request is posted.
Deliver ==
    /\ pc = "detect"
    /\ rows_left = 0
    /\ IF new_updates = <<>>
       THEN /\ ReturnFromRunOnce(TRUE, "ok")
            /\ request' = request
            /\ UNCHANGED <<cycle_requests, last_sent>>
       ELSE /\ request' = DeliveryRequest(new_updates)
            /\ pc' = "sending"
            /\ cycle_requests' = cycle_requests + 1
            /\ last_sent' = LastSentAfter(request'.body)
            /\ UNCHANGED <<consecutive_errors, cycle_history>>
    /\ row' = NoRow
    /\ start_seen' = IF new_updates = <<>> THEN last_seen ELSE start_seen
    /\ input_max' = NoInput
    /\ UNCHANGED <<client_vars, cursor_vars, current_mtime, rows_left, new_updates,
                   track_streak, long_cache, start_errors, interrupted, abandoned,
                   startup_history, delivery>>

\* What the server, or the network, answers to a delivery request.
Replies(endpoint) ==
    IF endpoint = "update"
    THEN {"stored", "duplicate", "rejected", "not_200", "json_not_object",
          "json_ValueError", "json_RequestException", "network_error"}
    ELSE {"batch_ok", "batch_no_counts", "rejected", "not_200", "json_not_object",
          "json_ValueError", "json_RequestException", "network_error"}

\* Exceptions caught by except requests.RequestException (lines 142, 161).
HandledReplies == {"json_RequestException", "network_error"}

\* EscapingException with the except clauses of lines 142 and 161 lost.
EscapingExceptionNoExcept(endpoint, reply) ==
    IF reply = "json_ValueError" THEN "ValueError"
    ELSE IF reply = "json_not_object" THEN "AttributeError"
    ELSE IF endpoint = "batch-update" /\ reply = "batch_no_counts" THEN "KeyError"
    ELSE IF reply \in HandledReplies THEN "RequestException"
    ELSE "none"

\* The exception that leaves process_locations for a reply ("none" if none):
\* response.json() raising ValueError (lines 131, 156) is no RequestException,
\* result.get on a JSON body that is no object (lines 132, 209) raises
\* AttributeError, and result['processed'] (line 210) raises KeyError when
\* the counts are missing.
EscapingException(endpoint, reply) ==
    IF reply = "json_ValueError" THEN "ValueError"
    ELSE IF reply = "json_not_object" THEN "AttributeError"
    ELSE IF endpoint = "batch-update" /\ reply = "batch_no_counts" THEN "KeyError"
    ELSE "none"

\* The outcome line process_locations logs for a reply (lines 200-205 for
\* the value send_location_update returns, lines 209-212 for a batch);
\* "none" when an exception leaves process_locations before the line.
Outcome(endpoint, reply) ==
    IF EscapingException(endpoint, reply) # "none" THEN "none"
    ELSE IF endpoint = "update"
    THEN IF reply = "stored" THEN "Stored"
         ELSE IF reply = "duplicate" THEN "Duplicate"
         ELSE "Failed"
    ELSE IF reply = "batch_ok" THEN "BatchSent" ELSE "Failed"

\* DeliveryReply with a slip: the request is posted once more.
DeliveryReplyRetrying ==
    /\ pc = "sending"
    /\ cycle_requests' = Min(cycle_requests + 1, 2)
    /\ UNCHANGED <<pc, client_vars, request, loop_vars, history_vars, startup_history,
                   delivery, last_sent, input_history>>

\* send_location_update lines 130-144, send_batch_update lines 155-163 and
\* process_locations lines 200-212, then run_once line 229 or 238-240.
DeliveryReply ==
    /\ pc = "sending"
    /\ \E reply \in Replies(request.endpoint) :
          LET exc == EscapingException(request.endpoint, reply) IN
          /\ IF exc # "none"
             THEN RaiseInRunOnce(exc, "deliver_error")
             ELSE ReturnFromRunOnce(TRUE, IF reply \in HandledReplies
                                            THEN "deliver_error" ELSE "ok")
          /\ delivery' = [endpoint |-> request.endpoint, reply |-> reply,
                          outcome |-> Outcome(request.endpoint, reply),
                          raised |-> exc]
    /\ start_seen' = last_seen
    /\ request' = NoRequest
    /\ new_updates' = <<>>
    /\ UNCHANGED <<client_vars, cursor_vars, current_mtime, rows_left, row,
                   track_streak, long_cache, start_errors, interrupted, abandoned,
                   startup_history, cycle_requests, last_sent, input_max>>

\* A request sent with a timeout raises requests.Timeout, a RequestException,
\* when the server stays silent: the pairing flow returns (lines 380-382),
\* test_connection gives False (lines 59-61), a send gives None (lines 142-144,
\* 161-163).
HttpTimeout ==
    /\ request # NoRequest
    /\ request.timeout # None
    /\ IF request.endpoint \in {"pairing/claim", "health"}
       THEN /\ pc' = "exit"
            /\ UNCHANGED <<consecutive_errors, cycle_history>>
       ELSE ReturnFromRunOnce(TRUE, "deliver_error")
    /\ pairing' = IF request.endpoint = "pairing/claim" THEN "timeout" ELSE pairing
    /\ health' = IF request.endpoint = "health" THEN "timeout" ELSE health
    /\ delivery' = IF request.endpoint \in {"update", "batch-update"}
                   THEN [endpoint |-> request.endpoint, reply |-> "timeout",
                         outcome |-> "Failed", raised |-> "none"]
                   ELSE delivery
    /\ start_seen' = last_seen
    /\ request' = NoRequest
    /\ new_updates' = <<>>
    /\ UNCHANGED <<client_vars, cursor_vars, current_mtime, rows_left, row,
                   track_streak, long_cache, start_errors, interrupted, abandoned,
                   cycle_requests, last_sent, input_max>>

(* --------------------------- run_continuous --------------------------- *)
\* time.sleep raises ValueError for a negative length.
SleepRaises == poll_interval < 0

\* run_continuous line 264, and lines 266-275 when the sleep raises.
Sleep ==
    /\ pc = "sleep"
    /\ IF SleepRaises
       THEN /\ RaiseInLoop("ValueError")
            /\ UNCHANGED <<last_cycle, start_errors, delivery, cycle_requests>>
       ELSE /\ pc' = "poll"
            /\ consecutive_errors' = consecutive_errors
            /\ last_cycle' = "none"
            /\ start_errors' = consecutive_errors
            /\ delivery' = NoDelivery
            /\ cycle_requests' = 0
    /\ current_mtime' = None
    /\ UNCHANGED <<client_vars, request, cursor_vars, rows_left, row, new_updates,
                   cycle_error, fail_streak, track_streak, long_cache, interrupted,
                   abandoned, startup_history, last_sent, input_history>>

\* run_continuous line 275, inside the handler: an exception raised here is
\* caught by the outer except Exception (line 279) and ends the loop.
RetrySleep ==
    /\ pc = "retry_wait"
    /\ pc' = IF SleepRaises THEN "fatal" ELSE "poll"
    /\ last_cycle' = IF SleepRaises THEN last_cycle ELSE "none"
    /\ delivery' = IF SleepRaises THEN delivery ELSE NoDelivery
    /\ cycle_requests' = IF SleepRaises THEN cycle_requests ELSE 0
    /\ start_errors' = consecutive_errors
    /\ current_mtime' = None
    /\ UNCHANGED <<client_vars, request, cursor_vars, rows_left, row, new_updates,
                   consecutive_errors, cycle_error, fail_streak, track_streak,
                   long_cache, interrupted, abandoned, startup_history, last_sent,
                   input_history>>

\* Ctrl-C: KeyboardInterrupt is raised wherever the thread is.  Outside the
\* try of run_continuous nothing catches it; inside run_once it passes the
\* except clauses according to RunOnceCatches, inside the loop according to
\* MonitorCatches, and ends at except KeyboardInterrupt (line 277).
Interrupt ==
    /\ pc \in {"main", "run", "pairing", "health",
               "poll", "fetch", "detect", "sending", "sleep", "retry_wait"}
    /\ interrupted' = TRUE
    /\ abandoned' = (abandoned \/ new_updates # <<>>)
    /\ IF pc \in {"main", "run", "pairing", "health"}
       THEN /\ pc' = "crashed"
            /\ UNCHANGED <<consecutive_errors, cycle_history>>
       ELSE IF pc \in {"poll", "fetch", "detect", "sending"}
       THEN RaiseInRunOnce("KeyboardInterrupt", "interrupted")
       ELSE IF pc = "sleep"
       THEN /\ RaiseInLoop("KeyboardInterrupt")
            /\ UNCHANGED cycle_history
       ELSE /\ pc' = "stopped"
            /\ UNCHANGED <<consecutive_errors, cycle_history>>
    /\ request' = NoRequest
    /\ rows_left' = 0
    /\ row' = NoRow
    /\ new_updates' = <<>>
    /\ UNCHANGED <<client_vars, cursor_vars, current_mtime, track_streak, long_cache,
                   start_errors, startup_history, delivery_history, input_history>>

(* --------------------------- specification ---------------------------- *)
Next ==
    \/ Main
    \/ PairingReply
    \/ RunContinuous
    \/ HealthReply
    \/ Poll
    \/ Fetch
    \/ ProcessOne
    \/ Deliver
    \/ DeliveryReply
    \/ HttpTimeout
    \/ Sleep
    \/ RetrySleep
    \/ Interrupt

Spec == Init /\ [][Next]_vars

\* The same program, with the streak of failing cycles recorded.
StreakSpec == StreakInit /\ [][Next]_vars

\* The same program, reading a cache file that lists BATCH_SIZE + 1
\* positions of one device, oldest first.
LongCacheSpec == LongCacheInit /\ [][Next]_vars

\* The steps the client takes by itself; a reply is the server's to give.
ClientStep ==
    Main \/ RunContinuous \/ Poll \/ Fetch \/ ProcessOne \/ Deliver \/ Sleep \/ RetrySleep

\* The thread runs whenever it can, and a timeout that is set expires.
LiveSpec == Spec /\ WF_vars(ClientStep) /\ WF_vars(HttpTimeout)

\* The timestamps, and the rows of one read, the cache file in use can hold.
CacheTimestamps == IF long_cache THEN 0..Max(MaxTs, LongRows) ELSE Timestamps
CacheLength     == IF long_cache THEN LongRows ELSE MaxRows

TypeOK ==
    /\ pc \in {"main", "pairing", "run", "health", "poll", "fetch", "detect",
               "sending", "sleep", "retry_wait",
               "exit", "aborted", "stopped", "fatal", "crashed"}
    /\ last_mtime \in Mtimes \cup {None}
    /\ current_mtime \in Mtimes \cup {None}
    /\ last_seen \in [Devices -> CacheTimestamps]
    /\ consecutive_errors \in 0..max_consecutive_errors
    /\ fail_streak \in 0..max_consecutive_errors
    /\ rows_left \in 0..CacheLength
    /\ row \in Rows \cup {NoRow} \cup {HistoryRow(i) : i \in 1..LongRows}
    /\ Len(new_updates) <= CacheLength
    /\ \A i \in 1..Len(new_updates) :
          /\ new_updates[i].deviceId \in Devices
          /\ new_updates[i].timestamp \in {IsoTime(t) : t \in CacheTimestamps}
    /\ pairing \in PairingReplies \cup {"none", "timeout"}
    /\ health \in HealthReplies \cup {"none", "timeout"}
    /\ delivery.endpoint \in {"none", "update", "batch-update"}
    /\ delivery.outcome \in {"none", "Stored", "Duplicate", "BatchSent", "Failed"}
    /\ cycle_requests \in 0..1
    /\ last_sent \in [Devices -> CacheTimestamps]
    /\ start_seen \in [Devices -> CacheTimestamps]
    /\ input_max \in [Devices -> CacheTimestamps \cup {None}]

(* ------------------------------- claims ------------------------------ *)
InCycle == pc \in {"fetch", "detect", "sending"}

\* C1: five consecutive cycles that each hit an exception in fetch / detect /
\* deliver bring the consecutive-failure counter to 5 and the loop to Aborted.
C1_FiveFailuresAbort ==
    fail_streak = max_consecutive_errors
        => (consecutive_errors = max_consecutive_errors /\ pc = "aborted")

C3_SourceFailureCounts ==
    (last_cycle = "source_error" /\ ~interrupted)
        => /\ pc \in {"sleep", "retry_wait"}
           /\ new_updates = <<>>
           /\ request = NoRequest
           /\ consecutive_errors = start_errors + 1

\* C4: last_seen[d] never decreases; it changes only in the pass of the for
\* loop that classifies a row of d as new, to that row's timestamp, and no
\* delivery request has been issued in the cycle by then.
C4_CursorMonotone ==
    [][\A d \in Devices :
          /\ last_seen'[d] >= last_seen[d]
          /\ last_seen'[d] # last_seen[d]
                => /\ pc = "detect" /\ pc' = "detect"
                   /\ rows_left' = rows_left - 1
                   /\ row'.deviceId = d
                   /\ row'.timestamp > last_seen[d]
                   /\ last_seen'[d] = row'.timestamp
                   /\ new_updates' = Append(new_updates, Update(row'))
                   /\ request = NoRequest /\ request' = NoRequest]_vars

\* The cursor of a device has just been set to the timestamp of a new row,
\* and no request has been issued yet in this cycle.
C4_Witness ==
    /\ pc = "detect"
    /\ row # NoRow
    /\ last_seen[row.deviceId] = row.timestamp
    /\ row.timestamp > 1
    /\ new_updates # <<>>
    /\ request = NoRequest

\* C5: a row whose timestamp is less than or equal to last_seen of its device
\* is stale: the pass that visits it adds nothing to new_updates and leaves
\* last_seen as it is.
C5_StaleIgnored ==
    [][(pc = "detect" /\ pc' = "detect" /\ rows_left' = rows_left - 1
          /\ row'.timestamp <= last_seen[row'.deviceId])
        => (new_updates' = new_updates /\ last_seen' = last_seen)]_vars

\* A row older than the cursor of its device was visited and is in no update.
C5_Witness ==
    /\ pc = "detect"
    /\ row # NoRow
    /\ row.timestamp > 0
    /\ row.timestamp < last_seen[row.deviceId]
    /\ \A i \in 1..Len(new_updates) : new_updates[i] # Update(row)

\* C6: the request follows the number of new updates of the cycle: none for
\* 0, the single-update endpoint with the one update for 1, the batch-update
\* endpoint with all of them for more.
C6_TransportByCount ==
    /\ pc = "sending" =>
          /\ new_updates # <<>>
          /\ request.body = new_updates
          /\ request.endpoint = IF Len(new_updates) = 1 THEN "update" ELSE "batch-update"
    /\ pc # "sending" => request.endpoint \notin {"update", "batch-update"}

\* A batch request carrying two updates is in flight.
C6_Witness ==
    /\ pc = "sending"
    /\ Len(new_updates) = 2
    /\ request.endpoint = "batch-update"
    /\ Len(request.body) = 2

\* C7: a marker equal to the recorded one makes the cycle a no-op: it goes
\* straight to the sleep, nothing is fetched, processed or sent, last_seen
\* and last_mtime stay.
C7_UnchangedMarkerNoOp ==
    [][(pc = "poll" /\ current_mtime' # None /\ current_mtime' = last_mtime)
        => /\ pc' = "sleep"
           /\ last_cycle' = "noop"
           /\ UNCHANGED <<last_seen, last_mtime, request, rows_left, new_updates>>]_vars

\* A cycle read the recorded marker again and ended as a no-op.
C7_Witness ==
    /\ pc = "sleep"
    /\ last_cycle = "noop"
    /\ current_mtime # None
    /\ current_mtime = last_mtime

\* C8 as claimed: any marker that differs from the recorded one, a lower one
\* included, is recorded and the cycle goes on to fetch.
C8_AnyChangeProcessed ==
    [][(pc = "poll" /\ current_mtime' # None /\ current_mtime' # last_mtime)
        => (last_mtime' = current_mtime' /\ pc' = "fetch")]_vars

\* C8 amended: a marker greater than the recorded one (or any marker when none
\* is recorded) is recorded and the cycle goes on to fetch; a lower marker is
\* treated like an unchanged one.
C8_GreaterMarkerProcessed ==
    [][(pc = "poll" /\ current_mtime' # None)
        => IF last_mtime = None \/ current_mtime' > last_mtime
           THEN last_mtime' = current_mtime' /\ pc' = "fetch"
           ELSE last_mtime' = last_mtime /\ pc' = "sleep" /\ last_cycle' = "noop"]_vars

\* A later, greater marker has been recorded and the cycle is about to fetch.
C8_Witness ==
    /\ pc = "fetch"
    /\ current_mtime = last_mtime
    /\ last_mtime > 1
    /\ \E d \in Devices : last_seen[d] > 0

\* C9 as claimed: the interrupt ends the loop only at a cycle boundary, never
\* between the fetch and the end of the delivery.
C9_StopsOnlyAtBoundary ==
    [][pc' = "stopped" => ~InCycle]_vars

\* C9 amended: the interrupt ends the loop wherever it arrives; after it the
\* client is stopped, no request is in flight and nothing is left to send.
C9_InterruptStops ==
    interrupted
        => /\ pc \in {"stopped", "crashed"}
           /\ request = NoRequest
           /\ new_updates = <<>>

\* The interrupt arrived mid-cycle, after the cursor had advanced for updates
\* that were then never delivered.
C9_Witness ==
    /\ interrupted
    /\ pc = "stopped"
    /\ abandoned
    /\ last_cycle = "interrupted"
    /\ \E d \in Devices : last_seen[d] > 0

\* C10: every delivery request comes to an end (a reply, an error or the
\* 30 s timeout), so the cycle leaves the send.
C10_DeliveryEnds == (pc = "sending") ~> (pc # "sending")

\* C11: the health check comes before the first cycle: the loop is entered
\* only after a health reply that test_connection accepts, and after a
\* non-200 reply or a network error the client has exited without reading
\* the marker, fetching, or posting a delivery request.
C11_HealthCheckGates ==
    /\ pc \in {"poll", "fetch", "detect", "sending", "sleep", "retry_wait",
               "aborted", "stopped", "fatal"} => health = "ok"
    /\ health \in {"not_200", "network_error"}
          => /\ pc = "exit"
             /\ last_mtime = None /\ current_mtime = None
             /\ rows_left = 0 /\ new_updates = <<>>
             /\ request = NoRequest /\ cycle_requests = 0
             /\ \A d \in Devices : last_seen[d] = 0 /\ last_sent[d] = 0

\* After a successful pairing the health check failed and the client exited.
C11_Witness ==
    /\ health = "network_error"
    /\ pairing = "token"
    /\ pc = "exit"
    /\ last_mtime = None

\* C12: the reply to a single update is logged as exactly one outcome for the
\* device: Stored for success with isNew, Duplicate for success without it,
\* Failed for every other reply, a malformed body included.
C12_SingleOutcome ==
    delivery.endpoint = "update"
        => delivery.outcome = IF delivery.reply = "stored" THEN "Stored"
                              ELSE IF delivery.reply = "duplicate" THEN "Duplicate"
                              ELSE "Failed"

\* C13: a batch reply with the success flag missing or false, a status other
\* than 200, or a network exception is logged Failed for the whole batch, no
\* exception leaves process_locations, and run_once returns True to the loop.
C13_BatchFailureContained ==
    [][(delivery' # delivery /\ delivery'.endpoint = "batch-update"
          /\ delivery'.reply \in {"rejected", "not_200", "network_error"})
        => /\ delivery'.outcome = "Failed"
           /\ delivery'.raised = "none"
           /\ pc' = "sleep"
           /\ consecutive_errors' = 0]_vars

\* A batch the server rejected has been logged Failed and the cycle has ended.
C13_Witness ==
    /\ pc = "sleep"
    /\ delivery.endpoint = "batch-update"
    /\ delivery.reply = "rejected"
    /\ delivery.outcome = "Failed"
    /\ last_cycle = "ok"

\* C14: when pairing fails (a status other than 200, a body that does not
\* parse, or no token in it) the config file is not written, client.token and
\* the Authorization header stay as they were, and main returns.
C14_FailedPairingKeepsCredentials ==
    [][(pc = "pairing" /\ pairing' \in {"not_200", "unparsable", "no_token"})
        => /\ UNCHANGED <<config_token, token, auth_header>>
           /\ pc' = "exit"]_vars

\* Pairing failed for want of a token while a saved token was held: the saved
\* token is still in the config file, in the client and in the header.
C14_Witness ==
    /\ pairing = "no_token"
    /\ pc = "exit"
    /\ config_token = SavedToken
    /\ token = SavedToken
    /\ auth_header = SavedToken

\* C15: after a successful pairing the new token is in the config file, in
\* the client and in the session header, and every delivery request carries
\* the token the client holds (none when it holds none).
C15_BearerOfHeldToken ==
    /\ pairing = "token"
          => (config_token = NewToken /\ token = NewToken /\ auth_header = NewToken)
    /\ request.endpoint \in {"update", "batch-update"} => request.auth = token

\* A batch request sent after a successful pairing carries the new token,
\* though another token had been saved before.
C15_Witness ==
    /\ pairing = "token"
    /\ pc = "sending"
    /\ request.endpoint = "batch-update"
    /\ request.auth = NewToken
    /\ NewToken # SavedToken

\* C16: an observation is put in at most one delivery request of the process:
\* every timestamp a new request carries for a device is greater than every
\* timestamp sent for that device before, and greater than the ones before it
\* in the same request; so nothing is sent again, whatever became of it.
C16_AtMostOnce ==
    [][/\ \A d \in Devices : last_sent'[d] >= last_sent[d]
       /\ (request' # request /\ request'.endpoint \in {"update", "batch-update"})
            => LET body == request'.body IN
               /\ \A i \in 1..Len(body) :
                     body[i].timestamp.iso > last_sent[body[i].deviceId]
               /\ \A i, j \in 1..Len(body) :
                     (i < j /\ body[i].deviceId = body[j].deviceId)
                        => body[i].timestamp.iso < body[j].timestamp.iso]_vars

\* A request carries a later observation of a device whose earlier
\* observation was sent in a cycle before.
C16_Witness ==
    /\ pc = "sending"
    /\ Len(request.body) = 1
    /\ start_seen[request.body[1].deviceId] > 0
    /\ request.body[1].timestamp.iso > start_seen[request.body[1].deviceId]
    /\ last_sent[request.body[1].deviceId] = request.body[1].timestamp.iso

\* C17: a cycle posts at most one delivery request, also when the request
\* fails: while it is in flight, and once it is answered, it is the only one.
C17_OneRequestPerCycle ==
    /\ cycle_requests <= 1
    /\ pc = "sending" => cycle_requests = 1
    /\ delivery # NoDelivery => cycle_requests = 1

\* The one request of the cycle failed on the network and the cycle is over.
C17_Witness ==
    /\ pc = "sleep"
    /\ delivery.reply = "network_error"
    /\ delivery.outcome = "Failed"
    /\ cycle_requests = 1

\* C18: in the for loop a row is sent exactly when its timestamp exceeds the
\* cursor the cycle began with and every timestamp of its device visited
\* before in this loop, and the cursor of each device is the maximum of the
\* cursor the cycle began with and the timestamps of the device visited.
C18_RatchetInSourceOrder ==
    [][(pc = "detect" /\ pc' = "detect" /\ rows_left' = rows_left - 1)
        => LET d == row'.deviceId
               t == row'.timestamp
           IN  /\ IF t > start_seen[d] /\ t > input_max[d]
                  THEN new_updates' = Append(new_updates, Update(row'))
                  ELSE new_updates' = new_updates
               /\ \A e \in Devices :
                     last_seen'[e] = Max(start_seen'[e], input_max'[e])]_vars

\* The second row of a device in one loop exceeds the cursor the cycle began
\* with but not the first row: only the first is to be sent.
C18_Witness ==
    /\ pc = "detect"
    /\ rows_left = 0
    /\ row # NoRow
    /\ row.timestamp > start_seen[row.deviceId]
    /\ row.timestamp < input_max[row.deviceId]
    /\ Len(new_updates) = 1
    /\ new_updates[1].deviceId = row.deviceId
    /\ last_seen[row.deviceId] = input_max[row.deviceId]

\* C19: no batch request carries more than BATCH_SIZE locations.
C19_BatchWithinSize ==
    request.endpoint = "batch-update" => Len(request.body) <= BATCH_SIZE

\* C20: last_mtime only increases, and is set to the marker read before the
\* fetch; the marker of a cycle that failed at the read of the file or at the
\* delivery stays recorded, and a later cycle reading the same marker fetches,
\* processes and sends nothing.
C20_MarkerRecordedFirst ==
    [][/\ last_mtime' # last_mtime
            => /\ pc = "poll" /\ pc' = "fetch"
               /\ last_mtime = None \/ last_mtime' > last_mtime
       /\ (pc = "poll" /\ pc' = "fetch") => last_mtime' = current_mtime'
       /\ (pc # "sleep" /\ pc' = "sleep" /\ current_mtime' # None
             /\ last_cycle' \in {"source_error", "deliver_error"})
            => last_mtime' = current_mtime'
       /\ (pc = "poll" /\ current_mtime' # None /\ current_mtime' = last_mtime)
            => /\ pc' = "sleep"
               /\ UNCHANGED <<last_seen, last_sent, request, rows_left, new_updates>>]_vars

\* A cycle whose delivery failed has ended with its marker, the second one of
\* the run, recorded.
C20_Witness ==
    /\ pc = "sleep"
    /\ last_cycle = "deliver_error"
    /\ delivery.outcome = "Failed"
    /\ current_mtime = last_mtime
    /\ last_mtime > 1

====
